---- MODULE Spec2Model ----
(***************************************************************************)
(* A model of iiifmagestar: the IIIF image server's identifier lookup,     *)
(* its region / size / rotation parsers (imageserver.py) and the get_info  *)
(* and get_image request handlers (main.py).                               *)
(*                                                                         *)
(* Strings are sequences of one-character strings, so startswith, split,   *)
(* int() and float() are computed character by character as Python does.  *)
(* The tokens of the model hold digits, signs, punctuation and letters but *)
(* no decimal point, exponent, 'inf' or 'nan': over them float() accepts   *)
(* exactly what int() accepts.                                             *)
(***************************************************************************)
EXTENDS Integers, Sequences, FiniteSets, TLC

VARIABLES files, pc, handler, request, image_path, probes, image,
          regionCall, sizeCall, stages, response, call

vars == <<files, pc, handler, request, image_path, probes, image,
          regionCall, sizeCall, stages, response, call>>

----------------------------------------------------------------------------
(* Bounds *)

\* source rasters are 1..MaxDim pixels wide and high
MaxDim == 3

\* region and size tokens have at most MaxFields comma-separated fields
MaxFields == 4

----------------------------------------------------------------------------
(* Python str operations *)

StartsWith(s, p) == Len(s) >= Len(p) /\ SubSeq(s, 1, Len(p)) = p

EndsWith(s, p) == Len(s) >= Len(p) /\ SubSeq(s, Len(s) - Len(p) + 1, Len(s)) = p

\* p in s
Contains(s, p) == \E i \in 1..(Len(s) - Len(p) + 1) : SubSeq(s, i, i + Len(p) - 1) = p

\* s[n:]
Drop(s, n) == SubSeq(s, n + 1, Len(s))

HasComma(s) == \E i \in 1..Len(s) : s[i] = ","

\* the position of the k-th comma of s; 0 and Len(s) + 1 stand for its ends
CommaAt(s, commas, k) ==
    IF k = 0 THEN 0
    ELSE IF k > Cardinality(commas) THEN Len(s) + 1
    ELSE CHOOSE i \in commas : Cardinality({j \in commas : j < i}) = k - 1

\* the fields of s, given the positions of its commas
Fields(s, commas) ==
    [k \in 1..(Cardinality(commas) + 1) |->
        SubSeq(s, CommaAt(s, commas, k - 1) + 1, CommaAt(s, commas, k) - 1)]

\* s.split(',')
Split[s \in Seq(STRING)] == Fields(s, {i \in 1..Len(s) : s[i] = ","})

DigitChars == {"0", "1", "2", "3", "4", "5", "6", "7", "8", "9"}

DigitValue(c) ==
    CASE c = "0" -> 0 [] c = "1" -> 1 [] c = "2" -> 2 [] c = "3" -> 3
      [] c = "4" -> 4 [] c = "5" -> 5 [] c = "6" -> 6 [] c = "7" -> 7
      [] c = "8" -> 8 [] c = "9" -> 9

\* s.isdigit()
IsDigit(s) == Len(s) > 0 /\ \A i \in 1..Len(s) : s[i] \in DigitChars

\* the number a string of digits writes
NatValue[s \in Seq(STRING)] ==
    IF s = <<>> THEN 0
    ELSE NatValue[SubSeq(s, 1, Len(s) - 1)] * 10 + DigitValue(s[Len(s)])

\* The outcome of a call: a returned value or a raised exception.
Return(v) == [raised |-> FALSE, val |-> v]

Raise(e) == [raised |-> TRUE, exc |-> e]

\* int(s): an optional sign and at least one digit, else ValueError
ParseInt[s \in Seq(STRING)] ==
    LET signed == s # <<>> /\ s[1] \in {"-", "+"}
        body == IF signed THEN Tail(s) ELSE s
    IN IF IsDigit(body)
       THEN Return(IF signed /\ s[1] = "-" THEN 0 - NatValue[body] ELSE NatValue[body])
       ELSE Raise("ValueError")

\* float(s), over the alphabet of the model
ParseFloat(s) == ParseInt[s]

\* int(a / b) for b > 0: Python's true division, truncated toward zero
TruncDiv(a, b) == IF a >= 0 THEN a \div b ELSE 0 - ((0 - a) \div b)

Max(a, b) == IF a >= b THEN a ELSE b

Min(a, b) == IF a <= b THEN a ELSE b

\* the first exception among the outcomes rs, if any
AnyRaised(rs) == \E i \in 1..Len(rs) : rs[i].raised

----------------------------------------------------------------------------
(* IIIFImageServer.parse_region *)

parse_region_pct(pct_values, img_width, img_height) ==
    LET f == [i \in 1..4 |-> ParseFloat(pct_values[i])]
    IN IF AnyRaised(f) THEN Raise("ValueError")
       ELSE Return(<<TruncDiv(img_width * f[1].val, 100),
                     TruncDiv(img_height * f[2].val, 100),
                     TruncDiv(img_width * f[3].val, 100),
                     TruncDiv(img_height * f[4].val, 100)>>)

\* parse_region_abs with the width bounded by the x of the token instead of
\* the clamped x
parse_region_abs_mut(values, img_width, img_height) ==
    LET v == [i \in 1..4 |-> ParseInt[values[i]]]
    IN IF AnyRaised(v) THEN Raise("ValueError")
       ELSE LET x == Max(0, Min(v[1].val, img_width))
                y == Max(0, Min(v[2].val, img_height))
                w == Min(v[3].val, img_width - v[1].val)
                h == Min(v[4].val, img_height - y)
            IN Return(<<x, y, w, h>>)

parse_region_abs(values, img_width, img_height) ==
    LET v == [i \in 1..4 |-> ParseInt[values[i]]]
    IN IF AnyRaised(v) THEN Raise("ValueError")
       ELSE LET x == Max(0, Min(v[1].val, img_width))
                y == Max(0, Min(v[2].val, img_height))
                w == Min(v[3].val, img_width - x)
                h == Min(v[4].val, img_height - y)
            IN Return(<<x, y, w, h>>)

parse_region(region, img_width, img_height) ==
    IF region = <<"f", "u", "l", "l">>
    THEN Return(<<0, 0, img_width, img_height>>)
    ELSE IF region = <<"s", "q", "u", "a", "r", "e">>
    THEN IF img_width = img_height
         THEN Return(<<0, 0, img_width, img_height>>)
         ELSE IF img_width > img_height
         THEN Return(<<(img_width - img_height) \div 2, 0, img_height, img_height>>)
         ELSE Return(<<0, (img_height - img_width) \div 2, img_width, img_width>>)
    ELSE IF StartsWith(region, <<"p", "c", "t", ":">>) /\ Len(Split[Drop(region, 4)]) = 4
    THEN parse_region_pct(Split[Drop(region, 4)], img_width, img_height)
    ELSE IF Len(Split[region]) = 4
    THEN parse_region_abs(Split[region], img_width, img_height)
    ELSE Return(<<0, 0, img_width, img_height>>)

----------------------------------------------------------------------------
(* IIIFImageServer.parse_size *)

\* "Width specified, height auto" and the bare-number case:
\* h = int(region_height * w / region_width); return w, max(1, h)
size_width_only(w_str, region_width, region_height) ==
    LET w == ParseInt[w_str]
    IN IF w.raised THEN Raise("ValueError")
       ELSE IF region_width = 0 THEN Raise("ZeroDivisionError")
       ELSE Return(<<w.val, Max(1, TruncDiv(region_height * w.val, region_width))>>)

\* "Height specified, width auto"
size_height_only(h_str, region_width, region_height) ==
    LET h == ParseInt[h_str]
    IN IF h.raised THEN Raise("ValueError")
       ELSE IF region_height = 0 THEN Raise("ZeroDivisionError")
       ELSE Return(<<Max(1, TruncDiv(region_width * h.val, region_height)), h.val>>)

\* "Both specified (exact size)"
size_exact(w_str, h_str) ==
    LET w == ParseInt[w_str]
        h == ParseInt[h_str]
    IN IF w.raised \/ h.raised THEN Raise("ValueError")
       ELSE Return(<<w.val, h.val>>)

\* "Handle !w,h (best fit)": scale = min(max_w / region_width, max_h / region_height),
\* in exact arithmetic.  No token reaches this branch of parse_size (see
\* parse_size: a token with a comma whose first field starts with '!' has
\* already returned or raised), so the rounding of the quotient is never seen.
size_best_fit(fields, region_width, region_height) ==
    IF Len(fields) # 2 THEN Raise("ValueError")
    ELSE LET max_w == ParseInt[fields[1]]
             max_h == ParseInt[fields[2]]
         IN IF max_w.raised \/ max_h.raised THEN Raise("ValueError")
            ELSE IF region_width = 0 \/ region_height = 0 THEN Raise("ZeroDivisionError")
            ELSE IF max_w.val * region_height <= max_h.val * region_width
            THEN Return(<<Max(1, max_w.val),
                          Max(1, TruncDiv(region_height * max_w.val, region_width))>>)
            ELSE Return(<<Max(1, TruncDiv(region_width * max_h.val, region_height)),
                          Max(1, max_h.val)>>)

\* lines 109-129: the '!' prefix, the bare number, the default
size_rest(size, region_width, region_height) ==
    LET rest == IF StartsWith(size, <<"!">>) THEN Drop(size, 1) ELSE size
    IN IF StartsWith(size, <<"!">>) /\ HasComma(rest)
       THEN size_best_fit(Split[rest], region_width, region_height)
       ELSE IF IsDigit(rest)
       THEN size_width_only(rest, region_width, region_height)
       ELSE Return(<<region_width, region_height>>)

\* lines 90-107: w_str, h_str = size.split(',')
size_comma(size, region_width, region_height) ==
    LET parts == Split[size]
    IN IF Len(parts) # 2 THEN Raise("ValueError")
       ELSE IF parts[1] # <<>> /\ parts[2] = <<>>
       THEN size_width_only(parts[1], region_width, region_height)
       ELSE IF parts[2] # <<>> /\ parts[1] = <<>>
       THEN size_height_only(parts[2], region_width, region_height)
       ELSE IF parts[1] # <<>> /\ parts[2] # <<>>
       THEN size_exact(parts[1], parts[2])
       ELSE size_rest(size, region_width, region_height)

size_pct(arg, region_width, region_height) ==
    LET pct == ParseFloat(arg)
    IN IF pct.raised THEN Raise("ValueError")
       ELSE Return(<<Max(1, TruncDiv(region_width * pct.val, 100)),
                     Max(1, TruncDiv(region_height * pct.val, 100))>>)

RECURSIVE parse_size(_, _, _)
parse_size(size, region_width, region_height) ==
    IF size = <<"m", "a", "x">>
    THEN Return(<<region_width, region_height>>)
    ELSE IF StartsWith(size, <<"^">>)
    THEN parse_size(Drop(size, 1), region_width, region_height)
    ELSE IF StartsWith(size, <<"p", "c", "t", ":">>)
    THEN size_pct(Drop(size, 4), region_width, region_height)
    ELSE IF HasComma(size)
    THEN size_comma(size, region_width, region_height)
    ELSE size_rest(size, region_width, region_height)

----------------------------------------------------------------------------
(* IIIFImageServer.find_image_file *)

path_delimiters == <<(<<".", ".">>), (<<"/">>), (<<"\\">>)>>

\* accepted_formats with '.png' ahead of '.jpg'
accepted_formats_mut ==
    << <<".", "p", "n", "g">>, <<".", "j", "p", "g">>, <<".", "j", "p", "e", "g">>,
       <<".", "t", "i", "f", "f">>, <<".", "t", "i", "f">>, <<".", "w", "e", "b", "p">>,
       <<".", "j", "p", "2">>, <<".", "p", "d", "f">> >>

accepted_formats ==
    << <<".", "j", "p", "g">>, <<".", "j", "p", "e", "g">>, <<".", "p", "n", "g">>,
       <<".", "t", "i", "f", "f">>, <<".", "t", "i", "f">>, <<".", "w", "e", "b", "p">>,
       <<".", "j", "p", "2">>, <<".", "p", "d", "f">> >>

\* Path.exists() of image_dir / name: fs is the set of names in image_dir
exists(fs, name) == name \in fs

NotFound(log) == [found |-> FALSE, path |-> <<>>, probes |-> log]

Found(name, log) == [found |-> TRUE, path |-> name, probes |-> log]

\* "choose the first available format from the list": log records every
\* path whose existence was asked
RECURSIVE probe_formats(_, _, _, _)
probe_formats(identifier, fs, i, log) ==
    IF i > Len(accepted_formats) THEN NotFound(log)
    ELSE LET file_path == identifier \o accepted_formats[i]
         IN IF exists(fs, file_path)
            THEN Found(file_path, Append(log, file_path))
            ELSE probe_formats(identifier, fs, i + 1, Append(log, file_path))

\* has_path_delimiter with the '/' left out of path_delimiters
has_path_delimiter_mut(identifier) ==
    \E i \in {1, 3} : Contains(identifier, path_delimiters[i])

has_path_delimiter(identifier) ==
    \E i \in 1..Len(path_delimiters) : Contains(identifier, path_delimiters[i])

ends_with_accepted_format(identifier) ==
    \E i \in 1..Len(accepted_formats) : EndsWith(identifier, accepted_formats[i])

find_image_file(identifier, fs) ==
    IF has_path_delimiter(identifier) THEN NotFound(<<>>)
    ELSE IF ends_with_accepted_format(identifier)
    THEN IF exists(fs, identifier)
         THEN Found(identifier, <<identifier>>)
         ELSE probe_formats(identifier, fs, 1, <<identifier>>)
    ELSE probe_formats(identifier, fs, 1, <<>>)

----------------------------------------------------------------------------
(* Rasters (numpy arrays) and the cv2 operations on them *)

\* A raster is its shape, its pixels and its channel layout.  A decoded file
\* carries a distinct label per pixel, so that a crop, a flip and a quarter
\* turn are told apart; a resampled pixel (resize, warpAffine) carries 0.
Raster(h, w, px, mode) == [h |-> h, w |-> w, px |-> px, mode |-> mode]

\* cv2.imread of a decodable file of w x h pixels: three channels (BGR)
Source(w, h) ==
    Raster(h, w, [p \in (1..h) \X (1..w) |-> (p[1] - 1) * w + p[2]], "bgr")

Resampled(w, h, mode) == Raster(h, w, [p \in (1..h) \X (1..w) |-> 0], mode)

IsEmpty(img) == img.h = 0 \/ img.w = 0

\* Python's slice a:b of a sequence of length n, as the index range lo..hi-1
SliceLo(a, n) == IF a < 0 THEN Max(0, a + n) ELSE Min(a, n)

\* image[y:y+h, x:x+w]
Crop(img, x, y, w, h) ==
    LET r0 == SliceLo(y, img.h)
        r1 == Max(r0, SliceLo(y + h, img.h))
        c0 == SliceLo(x, img.w)
        c1 == Max(c0, SliceLo(x + w, img.w))
    IN Raster(r1 - r0, c1 - c0,
              [p \in (1..(r1 - r0)) \X (1..(c1 - c0)) |-> img.px[<<r0 + p[1], c0 + p[2]>>]],
              img.mode)

\* cv2.flip(image, 1)
Flip(img) ==
    Raster(img.h, img.w,
           [p \in (1..img.h) \X (1..img.w) |-> img.px[<<p[1], img.w + 1 - p[2]>>]], img.mode)

\* cv2.rotate(image, cv2.ROTATE_90_CLOCKWISE)
Rotate90Clockwise(img) ==
    Raster(img.w, img.h,
           [p \in (1..img.w) \X (1..img.h) |-> img.px[<<img.h + 1 - p[2], p[1]>>]], img.mode)

\* cv2.rotate(image, cv2.ROTATE_180)
Rotate180(img) ==
    Raster(img.h, img.w,
           [p \in (1..img.h) \X (1..img.w) |->
               img.px[<<img.h + 1 - p[1], img.w + 1 - p[2]>>]], img.mode)

\* cv2.rotate(image, cv2.ROTATE_90_COUNTERCLOCKWISE)
Rotate90Counterclockwise(img) ==
    Raster(img.w, img.h,
           [p \in (1..img.w) \X (1..img.h) |-> img.px[<<p[2], img.w + 1 - p[1]>>]], img.mode)

\* What OpenCV decides and the model does not compute: cv.canvas, the
\* (new_width, new_height) the rotation matrix yields for an arbitrary angle,
\* and cv.empty_raises, whether flip / rotate / warpAffine reject a raster
\* with no pixels (cv2.error) or return it.
cv2_op(img, out, cv) ==
    IF IsEmpty(img) /\ cv.empty_raises THEN Raise("cv2.error") ELSE Return(out)

----------------------------------------------------------------------------
(* IIIFImageServer.apply_rotation *)

\* lines 143-178, on the (possibly mirrored) raster
rotate_by(img, rotation, cv) ==
    LET angle == ParseFloat(rotation)
    IN IF angle.raised THEN Return(img)
       ELSE IF angle.val = 0 THEN Return(img)
       ELSE IF angle.val % 90 = 0
       THEN IF angle.val % 360 = 90 THEN cv2_op(img, Rotate90Clockwise(img), cv)
            ELSE IF angle.val % 360 = 180 THEN cv2_op(img, Rotate180(img), cv)
            ELSE IF angle.val % 360 = 270 THEN cv2_op(img, Rotate90Counterclockwise(img), cv)
            ELSE Return(img)
       ELSE cv2_op(img, Resampled(cv.canvas[1], cv.canvas[2], img.mode), cv)

\* apply_rotation with the mirror applied after the rotation
apply_rotation_mut(img, rotation, cv) ==
    IF rotation = <<"0">> THEN Return(img)
    ELSE IF StartsWith(rotation, <<"!">>)
    THEN LET rotated == rotate_by(img, Drop(rotation, 1), cv)
         IN IF rotated.raised THEN rotated
            ELSE cv2_op(rotated.val, Flip(rotated.val), cv)
    ELSE rotate_by(img, rotation, cv)

apply_rotation(img, rotation, cv) ==
    IF rotation = <<"0">> THEN Return(img)
    ELSE IF StartsWith(rotation, <<"!">>)
    THEN LET flipped == cv2_op(img, Flip(img), cv)
         IN IF flipped.raised THEN flipped
            ELSE rotate_by(flipped.val, Drop(rotation, 1), cv)
    ELSE rotate_by(img, rotation, cv)

----------------------------------------------------------------------------
(* IIIFImageServer.encode_image and the content type of get_image *)

UpperChars == <<"A", "B", "E", "F", "G", "I", "J", "M", "N", "P", "T", "W">>

LowerChars == <<"a", "b", "e", "f", "g", "i", "j", "m", "n", "p", "t", "w">>

LowerChar(c) ==
    IF \E i \in 1..Len(UpperChars) : UpperChars[i] = c
    THEN LowerChars[CHOOSE i \in 1..Len(UpperChars) : UpperChars[i] = c]
    ELSE c

\* format.lower()
Lower(s) == [i \in 1..Len(s) |-> LowerChar(s[i])]

\* lines 187-196: "Convert quality to proper format".  cvtColor and
\* threshold reject a raster with no pixels.
adjust_quality(img, quality) ==
    IF quality = <<"c", "o", "l", "o", "r">> \/ quality = <<"d", "e", "f", "a", "u", "l", "t">>
    THEN Return(img)
    ELSE IF quality = <<"g", "r", "a", "y">>
    THEN IF img.mode = "bgr"
         THEN IF IsEmpty(img) THEN Raise("cv2.error")
              ELSE Return(Raster(img.h, img.w, img.px, "gray"))
         ELSE Return(img)
    ELSE IF quality = <<"b", "i", "t", "o", "n", "a", "l">>
    THEN IF IsEmpty(img) THEN Raise("cv2.error")
         ELSE Return(Raster(img.h, img.w, img.px, "bitonal"))
    ELSE Return(img)

\* lines 198-213: the codec cv2.imencode is asked for
encoder_for(format) ==
    LET format_lower == Lower(format)
    IN IF format_lower \in {<<"j", "p", "g">>, <<"j", "p", "e", "g">>} THEN ".jpg"
       ELSE IF format_lower = <<"p", "n", "g">> THEN ".png"
       ELSE IF format_lower = <<"w", "e", "b", "p">> THEN ".webp"
       ELSE IF format_lower \in {<<"t", "i", "f">>, <<"t", "i", "f", "f">>} THEN ".tiff"
       ELSE ".jpg"

\* lines 198-218: cv2.imencode rejects a raster with no pixels; otherwise
\* success is the codec's answer
encode_image(img, format, success) ==
    IF IsEmpty(img) THEN Raise("cv2.error")
    ELSE IF ~success THEN Raise("ValueError")
    ELSE Return(encoder_for(format))

\* content_type_for without the .lower()
content_type_for_mut(format) ==
    IF format \in {<<"j", "p", "g">>, <<"j", "p", "e", "g">>} THEN "image/jpeg"
    ELSE IF format = <<"p", "n", "g">> THEN "image/png"
    ELSE IF format = <<"w", "e", "b", "p">> THEN "image/webp"
    ELSE IF format \in {<<"t", "i", "f">>, <<"t", "i", "f", "f">>} THEN "image/tiff"
    ELSE "image/jpeg"

\* main.py: content_type_map.get(format.lower(), 'image/jpeg')
content_type_for(format) ==
    LET format_lower == Lower(format)
    IN IF format_lower \in {<<"j", "p", "g">>, <<"j", "p", "e", "g">>} THEN "image/jpeg"
       ELSE IF format_lower = <<"p", "n", "g">> THEN "image/png"
       ELSE IF format_lower = <<"w", "e", "b", "p">> THEN "image/webp"
       ELSE IF format_lower \in {<<"t", "i", "f">>, <<"t", "i", "f", "f">>} THEN "image/tiff"
       ELSE "image/jpeg"

----------------------------------------------------------------------------
(* The requests the handlers are given *)

Identifiers ==
    {
      <<"a">>, <<"a", ".", "j", "p", "g">>, <<".", ".", "/", "a">>, <<"a", "/", "b">>, <<"a", "\\", "b">>
    }

\* the contents of the image directory
FileSets ==
    { {}, {<<"a", ".", "p", "n", "g">>},
      {<<"a", ".", "j", "p", "g">>, <<"a", ".", "p", "n", "g">>,
       <<"a", "/", "b", ".", "j", "p", "g">>} }

RegionTokens ==
    {
      <<"f", "u", "l", "l">>, <<"s", "q", "u", "a", "r", "e">>, <<"1", ",", "0", ",", "2", ",", "2">>,
      <<"9", ",", "0", ",", "1", ",", "1">>, <<"p", "c", "t", ":", "1", "0", "0", ",", "0", ",", "5", "0", ",", "5", "0">>, <<"a", ",", "b", ",", "c", ",", "d">>
    }

SizeTokens ==
    {
      <<"m", "a", "x">>, <<"2", ",">>, <<"0", ",", "0">>, <<"p", "c", "t", ":", "5", "0">>, <<"!", "2", ",", "1">>
    }

RotationTokens ==
    {
      <<"0">>, <<"!", "9", "0">>, <<"4", "5">>, <<"x">>
    }

QualityTokens ==
    {
      <<"d", "e", "f", "a", "u", "l", "t">>, <<"b", "i", "t", "o", "n", "a", "l">>
    }

FormatTokens ==
    {
      <<"p", "n", "g">>, <<"T", "I", "F">>, <<"b", "m", "p">>
    }

----------------------------------------------------------------------------
(* The request handlers of main.py, one action per step *)

NoImage == [h |-> 0, w |-> 0, px |-> <<>>, mode |-> "none"]

NotCalled == [raised |-> FALSE, val |-> <<>>]

\* a parser call of the handler: what it was given and its outcome
NoParse == [args |-> <<>>, res |-> NotCalled]

NoPath == [found |-> FALSE, path |-> <<>>, probes |-> <<>>]

NoRequest ==
    [identifier |-> <<>>, region |-> <<>>, size |-> <<>>, rotation |-> <<>>,
     quality |-> <<>>, format |-> <<>>]

NoCall == [fn |-> "none", args |-> <<>>, res |-> NotCalled]

Response(status, type, message, media_type, encoding, info) ==
    [status |-> status, type |-> type, message |-> message,
     media_type |-> media_type, encoding |-> encoding, info |-> info]

NoResponse == Response(0, "", "", "", "", <<>>)

JSONError(status, type, message) ==
    Response(status, type, message, "application/json", "", <<>>)

\* the except clause of get_image
InternalServerError(exc) == JSONError(500, "InternalServerError", exc)

Init ==
    /\ files \in FileSets
    /\ pc = "idle"
    /\ handler = "none"
    /\ request = NoRequest
    /\ image_path = NoPath
    /\ probes = <<>>
    /\ image = NoImage
    /\ regionCall = NoParse
    /\ sizeCall = NoParse
    /\ stages = <<>>
    /\ response = NoResponse
    /\ call = NoCall

\* a request arrives
Accept(h, req) ==
    /\ pc' = "find"
    /\ handler' = h
    /\ request' = req
    /\ UNCHANGED <<files, image_path, probes, image, regionCall, sizeCall, stages,
                   response, call>>

\* Route '/iiif/3/{identifier}/info.json'
RouteInfo ==
    /\ pc = "idle"
    /\ \E identifier \in Identifiers :
         Accept("get_info", [NoRequest EXCEPT !.identifier = identifier])

\* Route '/iiif/3/{identifier}/{region}/{size}/{rotation}/{quality}.{format}'
RouteImage ==
    /\ pc = "idle"
    /\ \E identifier \in Identifiers, region \in RegionTokens, size \in SizeTokens,
          rotation \in RotationTokens, quality \in QualityTokens, format \in FormatTokens :
         Accept("get_image",
                [identifier |-> identifier, region |-> region, size |-> size,
                 rotation |-> rotation, quality |-> quality, format |-> format])

\* the handler returns resp
Respond(resp) ==
    /\ response' = resp
    /\ pc' = "done"

\* "Find the image file": get_info lines 31-33, get_image lines 85-87
FindImage ==
    /\ pc = "find"
    /\ LET found == find_image_file(request.identifier, files)
       IN /\ image_path' = found
          /\ probes' = found.probes
          /\ IF ~found.found
             THEN /\ Respond(JSONError(404, "BadRequest", "Image not found"))
                  /\ stages' = stages
             ELSE /\ pc' = "decode"
                  /\ stages' = Append(stages, "Resolved")
                  /\ response' = response
    /\ UNCHANGED <<files, handler, request, image, regionCall, sizeCall, call>>

\* cv2.imread: None for a file that does not decode, else its raster
Decode ==
    /\ pc = "decode"
    /\ \/ /\ Respond(JSONError(400, "BadRequest", "Invalid image file"))
          /\ UNCHANGED <<image, stages>>
       \/ \E w \in 1..MaxDim, h \in 1..MaxDim :
            /\ image' = Source(w, h)
            /\ stages' = Append(stages, "Decoded")
            /\ IF handler = "get_info"
               THEN Respond(Response(200, "ImageService3", "", "application/json", "",
                                     <<w, h>>))
               ELSE /\ pc' = "crop"
                    /\ response' = response
    /\ UNCHANGED <<files, handler, request, image_path, probes, regionCall, sizeCall, call>>

\* "Apply region cropping", lines 98-100
CropRegion ==
    /\ pc = "crop"
    /\ \E r \in {parse_region(request.region, image.w, image.h)} :
          /\ regionCall' = [args |-> <<request.region, image.w, image.h>>, res |-> r]
          /\ IF r.raised
             THEN /\ Respond(InternalServerError(r.exc))
                  /\ UNCHANGED <<image, stages>>
             ELSE /\ image' = IF r.val[3] > 0 /\ r.val[4] > 0
                              THEN Crop(image, r.val[1], r.val[2], r.val[3], r.val[4])
                              ELSE image
                  /\ stages' = Append(stages, "Cropped")
                  /\ pc' = "scale"
                  /\ response' = response
    /\ UNCHANGED <<files, handler, request, image_path, probes, sizeCall, call>>

\* cv2.resize(image, (new_width, new_height)): rejects an empty source and a
\* size that is not positive
cv2_resize(img, new_width, new_height) ==
    IF IsEmpty(img) \/ new_width <= 0 \/ new_height <= 0 THEN Raise("cv2.error")
    ELSE Return(Resampled(new_width, new_height, img.mode))

\* lines 105-106, given the parsed size s: the raster handed on
scale_image(img, s) ==
    IF s.raised THEN s
    ELSE IF s.val[1] # img.w \/ s.val[2] # img.h
    THEN cv2_resize(img, s.val[1], s.val[2])
    ELSE Return(img)

\* ScaleSize with the size parsed against the shape of the decoded raster
\* (original_width, original_height) instead of the cropped one
ScaleSize_mut ==
    /\ pc = "scale"
    /\ \E s \in {parse_size(request.size, regionCall.args[2], regionCall.args[3])} :
          /\ sizeCall' = [args |-> <<request.size, regionCall.args[2], regionCall.args[3]>>,
                          res |-> s]
          /\ \E scaled \in {scale_image(image, s)} :
                IF scaled.raised
                THEN /\ Respond(InternalServerError(scaled.exc))
                     /\ UNCHANGED <<image, stages>>
                ELSE /\ image' = scaled.val
                     /\ stages' = Append(stages, "Scaled")
                     /\ pc' = "rotate"
                     /\ response' = response
    /\ UNCHANGED <<files, handler, request, image_path, probes, regionCall, call>>

\* "Apply size scaling", lines 103-106
ScaleSize ==
    /\ pc = "scale"
    /\ \E s \in {parse_size(request.size, image.w, image.h)} :
          /\ sizeCall' = [args |-> <<request.size, image.w, image.h>>, res |-> s]
          /\ \E scaled \in {scale_image(image, s)} :
                IF scaled.raised
                THEN /\ Respond(InternalServerError(scaled.exc))
                     /\ UNCHANGED <<image, stages>>
                ELSE /\ image' = scaled.val
                     /\ stages' = Append(stages, "Scaled")
                     /\ pc' = "rotate"
                     /\ response' = response
    /\ UNCHANGED <<files, handler, request, image_path, probes, regionCall, call>>

\* the canvases warpAffine may be given for a raster: between its shorter
\* side and the sum of its sides
Canvases(img) ==
    (Min(img.w, img.h)..(img.w + img.h)) \X (Min(img.w, img.h)..(img.w + img.h))

\* "Apply rotation", line 109
RotateImage ==
    /\ pc = "rotate"
    /\ \E canvas \in Canvases(image), empty_raises \in BOOLEAN :
         LET rotated == apply_rotation(image, request.rotation,
                                       [canvas |-> canvas, empty_raises |-> empty_raises])
         IN IF rotated.raised
            THEN /\ Respond(InternalServerError(rotated.exc))
                 /\ UNCHANGED <<image, stages>>
            ELSE /\ image' = rotated.val
                 /\ stages' = Append(stages, "Rotated")
                 /\ pc' = "quality"
                 /\ response' = response
    /\ UNCHANGED <<files, handler, request, image_path, probes, regionCall, sizeCall, call>>

\* encode_image lines 187-196, called at line 112
AdjustQuality ==
    /\ pc = "quality"
    /\ LET adjusted == adjust_quality(image, request.quality)
       IN IF adjusted.raised
          THEN /\ Respond(InternalServerError(adjusted.exc))
               /\ UNCHANGED <<image, stages>>
          ELSE /\ image' = adjusted.val
               /\ stages' = Append(stages, "QualityAdjusted")
               /\ pc' = "encode"
               /\ response' = response
    /\ UNCHANGED <<files, handler, request, image_path, probes, regionCall, sizeCall, call>>

\* encode_image lines 198-218 and the Response of lines 114-133
EncodeImage ==
    /\ pc = "encode"
    /\ \E success \in BOOLEAN :
         LET encoded == encode_image(image, request.format, success)
         IN IF encoded.raised
            THEN /\ Respond(InternalServerError(encoded.exc))
                 /\ stages' = stages
            ELSE /\ Respond(Response(200, "image", "", content_type_for(request.format),
                                     encoded.val, <<>>))
                 /\ stages' = Append(stages, "Encoded")
    /\ UNCHANGED <<files, handler, request, image_path, probes, image, regionCall, sizeCall,
                   call>>

\* the response is sent and everything of the request is discarded: nothing
\* is kept from one request to the next
Finish ==
    /\ pc = "done"
    /\ pc' = "idle"
    /\ handler' = "none"
    /\ request' = NoRequest
    /\ image_path' = NoPath
    /\ probes' = <<>>
    /\ image' = NoImage
    /\ regionCall' = NoParse
    /\ sizeCall' = NoParse
    /\ stages' = <<>>
    /\ response' = NoResponse
    /\ UNCHANGED <<files, call>>

Next ==
    \/ RouteInfo
    \/ RouteImage
    \/ FindImage
    \/ Decode
    \/ CropRegion
    \/ ScaleSize
    \/ RotateImage
    \/ AdjustQuality
    \/ EncodeImage
    \/ Finish

Spec == Init /\ [][Next]_vars

\* The handler is a coroutine the event loop runs to its return: each step
\* that can be taken is taken.
HandlerStep ==
    \/ FindImage
    \/ Decode
    \/ CropRegion
    \/ ScaleSize
    \/ RotateImage
    \/ AdjustQuality
    \/ EncodeImage

FairSpec == Spec /\ WF_vars(HandlerStep)

----------------------------------------------------------------------------
(* The parsers and the lookup called on their own, over wider inputs *)

\* ','.join(fields)
RECURSIVE Join(_)
Join(fields) ==
    IF Len(fields) = 1 THEN fields[1]
    ELSE fields[1] \o <<",">> \o Join(Tail(fields))

\* every token of 1..n fields drawn from F, behind the prefix
Tokens(prefix, F, n) ==
    UNION { { prefix \o Join(f) : f \in [1..k -> F] } : k \in 1..n }

AbsFields ==
    {
      <<>>, <<"0">>, <<"1">>, <<"2">>, <<"9">>, <<"-", "1">>, <<"a">>
    }

PctFields ==
    {
      <<>>, <<"0">>, <<"5", "0">>, <<"1", "0", "0">>, <<"-", "5", "0">>, <<"a">>
    }

RegionCallTokens ==
    {<<"f", "u", "l", "l">>, <<"s", "q", "u", "a", "r", "e">>}
        \cup Tokens(<<>>, AbsFields, MaxFields)
        \cup Tokens(<<"p", "c", "t", ":">>, PctFields, MaxFields)

SizeFields ==
    {
      <<>>, <<"0">>, <<"1">>, <<"2">>, <<"5">>, <<"-", "1">>, <<"a">>
    }

SizePrefixes ==
    {
      <<>>, <<"^">>, <<"!">>, <<"^", "!">>, <<"p", "c", "t", ":">>, <<"^", "p", "c", "t", ":">>
    }

\* w_str, h_str = size.split(',') tells one, two and three fields apart
SizeCallTokens ==
    {<<"m", "a", "x">>, <<"^", "m", "a", "x">>, <<"p", "c", "t", ":", "5", "0">>, <<"p", "c", "t", ":", "2", "0", "0">>}
        \cup UNION { Tokens(prefix, SizeFields, 3) : prefix \in SizePrefixes }

Angles ==
    {
      <<>>, <<"0">>, <<"0", "0">>, <<"9", "0">>, <<"1", "8", "0">>, <<"2", "7", "0">>,
      <<"3", "6", "0">>, <<"4", "5", "0">>, <<"-", "9", "0">>, <<"-", "1", "8", "0">>, <<"4", "5">>, <<"a">>
    }

RotationCallTokens ==
    { prefix \o angle : prefix \in {<<>>, <<"!">>, <<"!", "!">>}, angle \in Angles }

FileNames ==
    {
      <<"a">>, <<"a", ".", "j", "p", "g">>, <<"a", ".", "p", "n", "g">>, <<"a", ".", "j", "p", "g", ".", "j", "p", "g">>, <<"a", ".", "p", "d", "f">>
    }

CallIdentifiers ==
    {
      <<"a">>, <<"a", ".", "j", "p", "g">>, <<"a", ".", "J", "P", "G">>, <<"a", ".", "p", "n", "g">>, <<"b">>, <<>>,
      <<".", ".">>, <<"a", ".", ".", "j", "p", "g">>, <<".", ".", "/", "a">>, <<"a", "/", "b", ".", "j", "p", "g">>, <<"a", "\\", "b">>, <<"/", "a">>
    }


Called(fn, args, res) ==
    /\ call' = [fn |-> fn, args |-> args, res |-> res]
    /\ UNCHANGED <<files, pc, handler, request, image_path, probes, image, regionCall,
                   sizeCall, stages, response>>

CallParseRegion ==
    /\ call.fn = "none"
    /\ \E region \in RegionCallTokens, img_width \in 1..MaxDim, img_height \in 1..MaxDim :
           Called("parse_region", <<region, img_width, img_height>>,
                  parse_region(region, img_width, img_height))

\* get_image hands parse_size the shape of the cropped raster, which may be
\* empty
CallParseSize ==
    /\ call.fn = "none"
    /\ \E size \in SizeCallTokens, region_width \in 0..MaxDim, region_height \in 0..MaxDim :
           Called("parse_size", <<size, region_width, region_height>>,
                  parse_size(size, region_width, region_height))

CallApplyRotation ==
    /\ call.fn = "none"
    /\ \E rotation \in RotationCallTokens, w \in 0..MaxDim, h \in 1..MaxDim :
           \E canvas \in Canvases(Source(w, h)), empty_raises \in BOOLEAN :
               Called("apply_rotation",
                      <<Source(w, h), rotation, canvas, empty_raises>>,
                      apply_rotation(Source(w, h), rotation,
                                     [canvas |-> canvas, empty_raises |-> empty_raises]))

CallFindImageFile ==
    /\ call.fn = "none"
    /\ \E identifier \in CallIdentifiers :
           Called("find_image_file", <<identifier>>, find_image_file(identifier, files))

\* the call has returned
CallReturn ==
    /\ call.fn # "none"
    /\ call' = NoCall
    /\ UNCHANGED <<files, pc, handler, request, image_path, probes, image, regionCall,
                   sizeCall, stages, response>>

InitCalls ==
    /\ files = {}
    /\ pc = "idle"
    /\ handler = "none"
    /\ request = NoRequest
    /\ image_path = NoPath
    /\ probes = <<>>
    /\ image = NoImage
    /\ regionCall = NoParse
    /\ sizeCall = NoParse
    /\ stages = <<>>
    /\ response = NoResponse
    /\ call = NoCall

NextRegion == CallParseRegion \/ CallReturn

SpecRegion == InitCalls /\ [][NextRegion]_vars

NextSize == CallParseSize \/ CallReturn

SpecSize == InitCalls /\ [][NextSize]_vars

NextRotation == CallApplyRotation \/ CallReturn

SpecRotation == InitCalls /\ [][NextRotation]_vars

InitFind ==
    /\ files \in SUBSET FileNames
    /\ pc = "idle"
    /\ handler = "none"
    /\ request = NoRequest
    /\ image_path = NoPath
    /\ probes = <<>>
    /\ image = NoImage
    /\ regionCall = NoParse
    /\ sizeCall = NoParse
    /\ stages = <<>>
    /\ response = NoResponse
    /\ call = NoCall

NextFind == CallFindImageFile \/ CallReturn

SpecFind == InitFind /\ [][NextFind]_vars

----------------------------------------------------------------------------
(* Properties *)

\* the handler has run past the step that enters stage
Entered(stage) == \E i \in 1..Len(stages) : stages[i] = stage

\* C1: every parser is total: whatever the region and size tokens of a
\* get_image request, parse_region and parse_size return a value and never
\* raise, so a malformed token never makes the response an error.
C1_ParsersNeverRaise ==
    /\ ~regionCall.res.raised
    /\ ~sizeCall.res.raised

\* an identifier that holds '..', '/' or '\'
IsTraversal(identifier) ==
    \/ Contains(identifier, <<".", ".">>)
    \/ Contains(identifier, <<"/">>)
    \/ Contains(identifier, <<"\\">>)

\* C2: for an identifier that holds '..', '/' or '\', whatever the image
\* directory holds, find_image_file returns not-found without asking for any
\* path, and get_info and get_image answer 404 'Image not found'.
C2_TraversalIsNotFound ==
    (pc \notin {"idle", "find"} /\ IsTraversal(request.identifier)) =>
        /\ ~image_path.found
        /\ probes = <<>>
        /\ pc = "done"
        /\ stages = <<>>
        /\ response.status = 404
        /\ response.type = "BadRequest"
        /\ response.message = "Image not found"

\* C2 happens: get_image has answered a request whose identifier holds a
\* '/' while the file it would name is there
C2_Witness ==
    /\ pc = "done"
    /\ handler = "get_image"
    /\ IsTraversal(request.identifier)
    /\ (request.identifier \o <<".", "j", "p", "g">>) \in files
    /\ response.status = 404

\* a size token '!maxW,maxH' of two positive integers
IsBestFitToken(size) ==
    /\ StartsWith(size, <<"!">>)
    /\ Len(Split[Drop(size, 1)]) = 2
    /\ \A i \in 1..2 : IsDigit(Split[Drop(size, 1)][i]) /\ NatValue[Split[Drop(size, 1)][i]] > 0

\* floor(side * scale), at least 1, for scale = min(maxW / rw, maxH / rh)
BestFitSide(side, maxW, maxH, rw, rh) ==
    IF maxW * rh <= maxH * rw
    THEN Max(1, (side * maxW) \div rw)
    ELSE Max(1, (side * maxH) \div rh)

\* C3: for a size token '!maxW,maxH' of positive integers and a region of
\* positive width and height, parse_size returns the best fit within the
\* box: w = max(1, floor(rw * scale)), h = max(1, floor(rh * scale)) with
\* scale = min(maxW / rw, maxH / rh).
C3_BestFit ==
    (/\ call.fn = "parse_size"
     /\ IsBestFitToken(call.args[1])
     /\ call.args[2] > 0
     /\ call.args[3] > 0) =>
        LET maxW == NatValue[Split[Drop(call.args[1], 1)][1]]
            maxH == NatValue[Split[Drop(call.args[1], 1)][2]]
            rw == call.args[2]
            rh == call.args[3]
        IN /\ ~call.res.raised
           /\ call.res.val = <<BestFitSide(rw, maxW, maxH, rw, rh),
                               BestFitSide(rh, maxW, maxH, rw, rh)>>

\* C4: for every size token and every region of positive width and height,
\* the size parse_size returns has width >= 1 and height >= 1.
C4_TargetSizeAtLeastOne ==
    (/\ call.fn = "parse_size"
     /\ call.args[2] > 0
     /\ call.args[3] > 0
     /\ ~call.res.raised) =>
        /\ call.res.val[1] >= 1
        /\ call.res.val[2] >= 1

\* C5: in get_image a crop or scale that would leave a raster of zero width
\* or height is skipped, so the raster handed to the rotate and encode
\* stages always has width > 0 and height > 0.
C5_RasterNeverDegenerate ==
    pc \in {"rotate", "quality", "encode"} => (image.w > 0 /\ image.h > 0)

\* a region token 'x,y,w,h' of four integers
IsAbsoluteToken(region) ==
    /\ Len(Split[region]) = 4
    /\ \A i \in 1..4 : ~ParseInt[Split[region][i]].raised

Clamp(v, lo, hi) == IF v < lo THEN lo ELSE IF v > hi THEN hi ELSE v

\* the four integers of an absolute region token
AbsValue(region, i) == ParseInt[Split[region][i]].val

\* x' = clamp(x, 0, W), y' = clamp(y, 0, H), w' = min(w, W - x'), h' = min(h, H - y')
ClampedRegion(region, W, H) ==
    <<Clamp(AbsValue(region, 1), 0, W),
      Clamp(AbsValue(region, 2), 0, H),
      Min(AbsValue(region, 3), W - Clamp(AbsValue(region, 1), 0, W)),
      Min(AbsValue(region, 4), H - Clamp(AbsValue(region, 2), 0, H))>>

\* C6 as stated: for an absolute region token 'x,y,w,h' of four integers,
\* parse_region returns the clamped region, and whenever x >= sourceWidth
\* the returned width is exactly 0.
C6_AsStated ==
    (call.fn = "parse_region" /\ IsAbsoluteToken(call.args[1])) =>
        /\ ~call.res.raised
        /\ call.res.val = ClampedRegion(call.args[1], call.args[2], call.args[3])
        /\ (AbsValue(call.args[1], 1) >= call.args[2] => call.res.val[3] = 0)

\* C6, amended: for an absolute region token 'x,y,w,h' of four integers,
\* parse_region returns x' = clamp(x, 0, W), y' = clamp(y, 0, H),
\* w' = min(w, W - x'), h' = min(h, H - y'); whenever x >= W the returned
\* width is min(w, 0): exactly 0 for w >= 0, and w itself for a negative w.
C6_AbsoluteRegion ==
    (call.fn = "parse_region" /\ IsAbsoluteToken(call.args[1])) =>
        /\ ~call.res.raised
        /\ call.res.val = ClampedRegion(call.args[1], call.args[2], call.args[3])
        /\ (AbsValue(call.args[1], 1) >= call.args[2] =>
               call.res.val[3] = Min(AbsValue(call.args[1], 3), 0))

\* C6 happens: parse_region has returned for an absolute token whose x is
\* beyond the source and whose width is positive, and the width is 0
C6_Witness ==
    /\ call.fn = "parse_region"
    /\ IsAbsoluteToken(call.args[1])
    /\ AbsValue(call.args[1], 1) >= call.args[2]
    /\ AbsValue(call.args[1], 3) > 0
    /\ call.res.val[1] = call.args[2]
    /\ call.res.val[3] = 0

StageOrder ==
    <<"Resolved", "Decoded", "Cropped", "Scaled", "Rotated", "QualityAdjusted", "Encoded">>

\* the Content-Type and the codec of each format a request may ask for
MimeOf(format) ==
    CASE format = <<"p", "n", "g">> -> "image/png"
      [] format = <<"T", "I", "F">> -> "image/tiff"
      [] format = <<"b", "m", "p">> -> "image/jpeg"

CodecOf(format) ==
    CASE format = <<"p", "n", "g">> -> ".png"
      [] format = <<"T", "I", "F">> -> ".tiff"
      [] format = <<"b", "m", "p">> -> ".jpg"

\* C7: every get_image request ends in one outcome, decided by where it
\* fails: 404 {BadRequest, 'Image not found'} when the identifier resolves to
\* no existing file, 400 when the file does not decode, 500 when a crop,
\* scale, rotate, quality or encode step fails, and else 200 with the
\* Content-Type of the requested format; no failure after resolution is a
\* 404 and no unresolved identifier reaches the decode.
C7_OneOutcome ==
    /\ (Entered("Resolved") => (image_path.found /\ image_path.path \in files))
    /\ (pc = "done" /\ handler = "get_image") =>
        /\ response.status \in {200, 400, 404, 500}
        /\ response.status = 404 <=> ~image_path.found
        /\ response.status = 404 =>
               /\ stages = <<>>
               /\ response.type = "BadRequest"
               /\ response.message = "Image not found"
        /\ response.status = 400 <=> stages = <<"Resolved">>
        /\ response.status = 400 =>
               /\ image = NoImage
               /\ response.type = "BadRequest"
        /\ response.status = 500 <=> (Entered("Decoded") /\ ~Entered("Encoded"))
        /\ response.status = 500 => response.type = "InternalServerError"
        /\ response.status = 200 <=> stages = StageOrder
        /\ response.status = 200 =>
               /\ response.media_type = MimeOf(request.format)
               /\ response.encoding = CodecOf(request.format)

\* C7 happens: get_image has answered 200 to a request for the upper-case
\* format 'TIF', with the Content-Type and the codec of tiff
C7_Witness ==
    /\ pc = "done"
    /\ handler = "get_image"
    /\ response.status = 200
    /\ request.format = <<"T", "I", "F">>
    /\ response.media_type = "image/tiff"
    /\ response.encoding = ".tiff"

\* C8: a get_image request goes through Resolved, Decoded, Cropped, Scaled,
\* Rotated, QualityAdjusted, Encoded in that order, one stage at a time and
\* none twice; the size is parsed against the shape of the raster the crop
\* stage left; and the request always reaches Encoded or an error response.
C8_StagesInOrder ==
    /\ [](stages = SubSeq(StageOrder, 1, Len(stages)))
    /\ [][stages' = stages \/ stages' = <<>>
              \/ stages' = Append(stages, StageOrder[Len(stages) + 1])]_vars
    /\ [][(pc = "scale" /\ pc' # "scale") =>
              sizeCall'.args = <<request.size, image.w, image.h>>]_vars
    /\ ((pc = "find" /\ handler = "get_image") ~>
            (pc = "done" /\ (Entered("Encoded") \/ response.status \in {400, 404, 500})))

\* C8 happens: a request has gone through every stage, after a crop that
\* changed the shape of the raster
C8_Witness ==
    /\ pc = "done"
    /\ stages = StageOrder
    /\ regionCall.args[2] # sizeCall.args[2]

\* the extensions, in the order the lookup tries them
ExtensionOrder ==
    << <<".", "j", "p", "g">>, <<".", "j", "p", "e", "g">>, <<".", "p", "n", "g">>,
       <<".", "t", "i", "f", "f">>, <<".", "t", "i", "f">>, <<".", "w", "e", "b", "p">>,
       <<".", "j", "p", "2">>, <<".", "p", "d", "f">> >>

HasExtension(identifier) ==
    \E i \in 1..Len(ExtensionOrder) : EndsWith(identifier, ExtensionOrder[i])

\* C9: for a traversal-free identifier and any contents of the image
\* directory, find_image_file asks for the exact path first when the
\* identifier ends with a recognized extension, and otherwise returns
\* identifier + ext for the first ext of the fixed order that exists; it
\* returns not-found exactly when no candidate exists and never returns a
\* path that does not exist.
C9_FirstExistingCandidate ==
    (call.fn = "find_image_file" /\ ~IsTraversal(call.args[1])) =>
        LET identifier == call.args[1]
            r == call.res
            exact == HasExtension(identifier) /\ identifier \in files
        IN /\ r.found => r.path \in files
           /\ HasExtension(identifier) => (r.probes # <<>> /\ r.probes[1] = identifier)
           /\ exact => (r.found /\ r.path = identifier)
           /\ ~r.found <=>
                  /\ ~exact
                  /\ \A i \in 1..Len(ExtensionOrder) :
                         (identifier \o ExtensionOrder[i]) \notin files
           /\ (r.found /\ ~exact) =>
                  \E i \in 1..Len(ExtensionOrder) :
                      /\ r.path = identifier \o ExtensionOrder[i]
                      /\ \A j \in 1..(i - 1) :
                             (identifier \o ExtensionOrder[j]) \notin files

\* C9 happens: the lookup has returned the '.jpg' candidate of an identifier
\* with no extension while a '.png' candidate exists too
C9_Witness ==
    /\ call.fn = "find_image_file"
    /\ call.args[1] = <<"a">>
    /\ <<"a", ".", "p", "n", "g">> \in files
    /\ call.res.found
    /\ call.res.path = <<"a", ".", "j", "p", "g">>

\* the raster seen in a mirror: each row reversed
Mirrored(img) ==
    [img EXCEPT !.px = [p \in DOMAIN img.px |-> img.px[<<p[1], img.w + 1 - p[2]>>]]]

\* the same pixels, none resampled
SamePixels(a, b) ==
    /\ Cardinality(DOMAIN a.px) = Cardinality(DOMAIN b.px)
    /\ {a.px[p] : p \in DOMAIN a.px} = {b.px[p] : p \in DOMAIN b.px}

\* C10: apply_rotation mirrors the raster exactly when the token starts with
\* '!', before any rotation; then '0', an angle of 0 and an unparseable angle
\* leave the raster as it is, and a multiple of 90 is a lossless quarter
\* turn: width and height swapped for 90 and 270 (mod 360), kept for 180,
\* nothing done for 360.
C10_MirrorThenQuarterTurns ==
    (call.fn = "apply_rotation" /\ ~IsEmpty(call.args[1])) =>
        LET img == call.args[1]
            rotation == call.args[2]
            mirror == rotation # <<>> /\ rotation[1] = "!"
            base == IF mirror THEN Mirrored(img) ELSE img
            angle == ParseFloat(IF mirror THEN Tail(rotation) ELSE rotation)
            r == call.res
        IN /\ ~r.raised
           /\ (angle.raised \/ angle.val % 360 = 0) => r.val = base
           /\ (~angle.raised /\ angle.val % 360 \in {90, 270}) =>
                  /\ r.val.w = img.h
                  /\ r.val.h = img.w
                  /\ SamePixels(r.val, img)
                  /\ (img.w * img.h > 1 => r.val.px # base.px)
           /\ (~angle.raised /\ angle.val % 360 = 180) =>
                  /\ r.val.w = img.w
                  /\ r.val.h = img.h
                  /\ SamePixels(r.val, img)
                  /\ (img.w * img.h > 1 => r.val # base)
           /\ (~angle.raised /\ angle.val % 90 = 0) =>
                  r.val = rotate_by(base, IF mirror THEN Tail(rotation) ELSE rotation,
                                    [canvas |-> call.args[3], empty_raises |-> call.args[4]]).val

\* C10 happens: a raster that is not square has been mirrored and turned by
\* 90 degrees
C10_Witness ==
    /\ call.fn = "apply_rotation"
    /\ call.args[2] = <<"!", "9", "0">>
    /\ call.args[1].w = 2
    /\ call.args[1].h = 1
    /\ ~call.res.raised
    /\ call.res.val.w = 1
    /\ call.res.val.h = 2

====
